---- MODULE Spec2Model ----
(***************************************************************************)
(* Scope attribute resolvers and action-set expansion of Grafana's access  *)
(* control (pkg/services/accesscontrol/resolvers.go).                      *)
(*                                                                         *)
(* Strings are sequences of one-character strings, so that formatting and  *)
(* prefix extraction are computed and not assumed.  Threads interleave at  *)
(* every access to shared state; the program counter of a thread names the *)
(* source line it is about to execute.                                     *)
(***************************************************************************)
EXTENDS Integers, Sequences, FiniteSets, TLC

VARIABLES
    now,                 \* wall clock, in seconds since NewResolvers
    cache,               \* Resolvers.cache: key -> entry
    attributeResolvers,  \* Resolvers.attributeResolvers: prefix -> resolver
    pc,                  \* per thread: the line it is about to execute
    loc,                 \* per thread: the locals of the running operation
    ret,                 \* the call that returned in the last step, if one did
    crashed,             \* the runtime has thrown a fatal error
    raced,               \* history: two conflicting map accesses have overlapped
    mutators,            \* organizations a ScopeAttributeMutator was made for
    tracking,            \* history: whether first calls are recorded
    first,               \* history: per request, the first call made with it
    replaced,            \* history: per prefix, the resolvers since replaced
    nCalls,              \* history: scope-mutator calls started
    nAdds,               \* history: registrations started
    keyIn,               \* the two inputs of getScopeCacheKey under SpecKey
    keyOut,              \* the two keys computed from them
    actionResolver,      \* Resolvers.actionResolver
    arrays,              \* the backing arrays action resolvers hand slices of
    expanders,           \* whether an ActionSetResolver has been handed out
    nExpands,            \* history: action expansions started
    nSets                \* history: SetActionResolver calls started

vars ==
    << now, cache, attributeResolvers, pc, loc, ret, crashed, raced,
       mutators, tracking, first, replaced, nCalls, nAdds, keyIn, keyOut,
       actionResolver, arrays, expanders, nExpands, nSets >>

---------------------------------------------------------------------------
(* Strings *)

Digit(d) ==
    CASE d = 0 -> "0" [] d = 1 -> "1" [] d = 2 -> "2" [] d = 3 -> "3"
      [] d = 4 -> "4" [] d = 5 -> "5" [] d = 6 -> "6" [] d = 7 -> "7"
      [] d = 8 -> "8" [] d = 9 -> "9"

RECURSIVE FormatNat(_)
\* decimal digits of n >= 0, most significant first, no leading zero
FormatNat(n) ==
    IF n < 10 THEN << Digit(n) >>
    ELSE Append(FormatNat(n \div 10), Digit(n % 10))

\* fmt's %v of an int64: a minus sign for negative values, then the digits
FormatInt(n) ==
    IF n < 0 THEN << "-" >> \o FormatNat(0 - n) ELSE FormatNat(n)

\* a key that leaves the organization out
getScopeCacheKey_NoOrg(orgID, scope) ==
    scope \o << "-" >>

\* fmt.Sprintf("%s-%v", scope, orgID)
getScopeCacheKey(orgID, scope) ==
    scope \o << "-" >> \o FormatInt(orgID)

RECURSIVE LastIndex(_, _)
\* position of the last occurrence of c in s, 0 when there is none
LastIndex(s, c) ==
    IF s = << >> THEN 0
    ELSE IF s[Len(s)] = c THEN Len(s)
    ELSE LastIndex(SubSeq(s, 1, Len(s) - 1), c)

\* the scope up to and including its last ':' (the last part is the id)
ScopePrefix(scope) ==
    SubSeq(scope, 1, LastIndex(scope, ":"))

---------------------------------------------------------------------------
(* Bounds and inputs *)

NumThreads == 2
MaxCalls == 3
MaxAdds == 2
MaxNow == 60

Threads == 1 .. NumThreads

\* two scopes of one prefix whose keys collide across organizations
ScopeD == << "d", ":", "1" >>
ScopeDDash == << "d", ":", "1", "-" >>

Orgs == { -1, 1 }
Requests == { << -1, ScopeD >>, << 1, ScopeD >>, << 1, ScopeDDash >> }
Prefixes == { ScopePrefix(q[2]) : q \in Requests } \cup { << "e", ":" >> }

NoResolver == "nil"
Resolvers == { "A", "B" }

\* the sequences a registered resolver may return
Produces(r) ==
    IF r = "A" THEN { << "dashboards:uid:abc", "folders:uid:xyz" >> }
    ELSE { << >>, << "dashboards:uid:def" >> }

\* ScopeAttributeResolver.Resolve(ctx, orgID, scope): scopes or an error;
\* which of them is the resolver's business (it may consult storage)
ResolveOutcomes(r, orgID, scope) ==
    { [ok |-> TRUE, scopes |-> v] : v \in Produces(r) }
        \cup { [ok |-> FALSE, scopes |-> << >>] }

ttl == 30
cleanInterval == 120
TickStep == ttl

MaxExpands == 3
MaxSets == 2

Actions == { "dashboards:read", "folders:read" }
ActionResolvers == { "R1", "R2" }

\* the one array resolver R2 keeps: one member and one spare cell
ResolverArrays ==
    [m \in { "m" } |-> << "dashboards:view", "" >>]

---------------------------------------------------------------------------
(* The cache (localcache.CacheService): entries with an expiry time.  Its  *)
(* janitor deletes entries that have expired, which no Get can observe, so *)
(* it is left out.                                                         *)

NoEntry ==
    [val |-> << >>, exp |-> 0, at |-> 0, org |-> 0, scope |-> << >>,
     by |-> NoResolver]

\* cache.Get(key) finds an entry: there is one and it has not expired
CacheHit(key) ==
    key \in DOMAIN cache /\ ~(now > cache[key].exp)

\* cache.Set(key, val, d): the entry under key is replaced, expiring d from now.
\* at, org, scope and by record when, for which request and from which
\* resolver val came.
CacheWith(key, val, d, orgID, scope, by) ==
    [k \in DOMAIN cache \cup {key} |->
        IF k = key
        THEN [val |-> val, exp |-> now + d, at |-> now, org |-> orgID,
              scope |-> scope, by |-> by]
        ELSE cache[k]]

---------------------------------------------------------------------------
(* Slices.  A slice is a window of len elements on a backing array; a slice   *)
(* that shares its array with nobody carries its elements itself and has no   *)
(* spare capacity.                                                            *)

Private == "private"

NoSlice == [arr |-> Private, len |-> 0, elems |-> << >>]

\* a slice on an array of its own holding exactly elems
FreshSlice(elems) ==
    [arr |-> Private, len |-> Len(elems), elems |-> elems]

\* the elements of slice s when the shared arrays are mem
ElemsIn(mem, s) ==
    IF s.arr = Private THEN s.elems ELSE SubSeq(mem[s.arr], 1, s.len)

\* cap(s)
Cap(s) ==
    IF s.arr = Private THEN s.len ELSE Len(arrays[s.arr])

---------------------------------------------------------------------------
(* Threads *)

NoSeen == [st |-> "none", val |-> << >>]

NoLoc ==
    [op |-> "none", org |-> 0, scope |-> << >>, prefix |-> << >>,
     resolver |-> NoResolver, scopes |-> << >>, err |-> "nil", result |-> << >>,
     hit |-> FALSE, src |-> NoEntry, seen |-> NoSeen, stale |-> {},
     args |-> << >>, action |-> "", actionSetActions |-> NoSlice, resolved |-> << >>,
     actions |-> NoSlice]

NoRet == [NoLoc EXCEPT !.op = "none"]

NoFirst == [st |-> "none", th |-> 0, val |-> << >>, exp |-> 0]

\* what a call starting now is told about the first call made with request q:
\* that it returned val and its entry has not expired, or that it failed
SeenOf(q) ==
    IF first[q].st = "ok" /\ ~(now > first[q].exp)
    THEN [st |-> "ok", val |-> first[q].val]
    ELSE IF first[q].st \in { "failed", "notfound" }
         THEN [st |-> "failed", val |-> << >>]
    ELSE NoSeen

\* the history of the first call of request q, when thread p ends that call
FirstEnds(p, q, st, val, exp) ==
    IF tracking /\ first[q].st = "running" /\ first[q].th = p
    THEN [first EXCEPT ![q] = [st |-> st, th |-> 0, val |-> val, exp |-> exp]]
    ELSE first

\* the first call of request q is the one that starts when none has
FirstStarts(p, q) ==
    IF tracking /\ first[q].st = "none"
    THEN [first EXCEPT ![q] = [NoFirst EXCEPT !.st = "running", !.th = p]]
    ELSE first

\* threads are interchangeable: the lowest idle one takes the next operation
Free(p) ==
    /\ pc[p] = "idle"
    /\ \A q \in Threads : q < p => pc[q] # "idle"

---------------------------------------------------------------------------
(* NewResolvers, lines 40-46: an empty cache, an empty map *)

NewResolvers ==
    /\ now = 0
    /\ cache = << >>
    /\ attributeResolvers = << >>
    /\ pc = [p \in Threads |-> "idle"]
    /\ loc = [p \in Threads |-> NoLoc]
    /\ ret = NoRet
    /\ crashed = FALSE
    /\ raced = FALSE
    /\ mutators = {}
    /\ first = [q \in Requests |-> NoFirst]
    /\ replaced = [x \in Prefixes |-> {}]
    /\ nCalls = 0
    /\ nAdds = 0
    /\ actionResolver = NoResolver
    /\ arrays = ResolverArrays
    /\ expanders = FALSE
    /\ nExpands = 0
    /\ nSets = 0

Init ==
    /\ NewResolvers
    /\ tracking = FALSE
    /\ keyIn = << >>
    /\ keyOut = << >>

\* the same program, with the first call of every request recorded
InitHist ==
    /\ NewResolvers
    /\ tracking = TRUE
    /\ keyIn = << >>
    /\ keyOut = << >>

keyVars == << tracking, keyIn, keyOut >>

actionVars == << actionResolver, arrays, expanders, nExpands, nSets >>

---------------------------------------------------------------------------
(* AddScopeAttributeResolver, lines 55-58 *)

\* line 56: the call is entered and logged; the thread stands before line 57
AddScopeAttributeResolver(p, prefix, resolver) ==
    /\ ~crashed
    /\ Free(p)
    /\ nAdds < MaxAdds
    /\ nAdds' = nAdds + 1
    /\ pc' = [pc EXCEPT ![p] = "L57"]
    /\ loc' = [loc EXCEPT ![p] =
                  [NoLoc EXCEPT !.op = "add", !.prefix = prefix, !.resolver = resolver]]
    /\ ret' = NoRet
    /\ raced' = (raced \/ \E q \in Threads \ {p} : pc[q] \in { "L57", "L75" })
    /\ UNCHANGED << now, cache, attributeResolvers, crashed, mutators,
                    first, replaced, nCalls, keyVars, actionVars >>

\* a registration that keeps the resolver a prefix already has
MapWith_KeepFirst(prefix, resolver) ==
    IF prefix \in DOMAIN attributeResolvers THEN attributeResolvers
    ELSE [x \in DOMAIN attributeResolvers \cup {prefix} |->
             IF x = prefix THEN resolver ELSE attributeResolvers[x]]

\* the map after s.attributeResolvers[prefix] = resolver
MapWith(prefix, resolver) ==
    [x \in DOMAIN attributeResolvers \cup {prefix} |->
        IF x = prefix THEN resolver ELSE attributeResolvers[x]]

\* what the map holds for prefix
MapAt(prefix) ==
    IF prefix \in DOMAIN attributeResolvers
    THEN attributeResolvers[prefix] ELSE NoResolver

\* the threads other than p that stand before the map write of line 57
MapWriters(p) ==
    { q \in Threads \ {p} : pc[q] = "L57" }

\* a registration of resolver for prefix takes effect: what it replaces counts
\* as replaced, and the calls under way may see resolver from now on
Registered(p, prefix, resolver) ==
    /\ attributeResolvers' = MapWith(prefix, resolver)
    /\ replaced' = [replaced EXCEPT ![prefix] =
                       (@ \cup ({MapAt(prefix)} \ {NoResolver})) \ {resolver}]
    /\ loc' = [q \in Threads |->
                  IF q = p THEN NoLoc
                  ELSE IF loc[q].op = "mutate" /\ ScopePrefix(loc[q].scope) = prefix
                       THEN [loc[q] EXCEPT !.stale = @ \ {resolver}]
                       ELSE loc[q]]

\* line 57: the unguarded map write.  With another write under way the
\* runtime may throw "concurrent map writes", or this write may be lost.
AddWrite(p) ==
    /\ ~crashed
    /\ pc[p] = "L57"
    /\ \/ /\ Registered(p, loc[p].prefix, loc[p].resolver)
          /\ pc' = [pc EXCEPT ![p] = "idle"]
          /\ ret' = NoRet
          /\ UNCHANGED crashed
       \/ /\ MapWriters(p) # {}
          /\ pc' = [pc EXCEPT ![p] = "idle"]
          /\ loc' = [loc EXCEPT ![p] = NoLoc]
          /\ ret' = NoRet
          /\ UNCHANGED << attributeResolvers, replaced, crashed >>
       \/ /\ MapWriters(p) # {}
          /\ crashed' = TRUE
          /\ ret' = NoRet
          /\ UNCHANGED << attributeResolvers, replaced, loc, pc >>
    /\ UNCHANGED << raced, now, cache, mutators, first, nCalls, nAdds, keyVars,
                    actionVars >>

---------------------------------------------------------------------------
(* GetScopeAttributeMutator, lines 64-87 *)

\* line 64: a mutator closing over orgID is handed out
GetScopeAttributeMutator(orgID) ==
    /\ ~crashed
    /\ orgID \notin mutators
    /\ mutators' = mutators \cup {orgID}
    /\ ret' = NoRet
    /\ UNCHANGED << raced, now, cache, attributeResolvers, pc, loc, crashed,
                    first, replaced, nCalls, nAdds, keyVars, actionVars >>

\* thread p returns from its call with the locals l
Returns(p, l) ==
    /\ pc' = [pc EXCEPT ![p] = "idle"]
    /\ loc' = [loc EXCEPT ![p] = NoLoc]
    /\ ret' = [l EXCEPT !.op = "mutated"]

\* a mutator that stores the entry again on every hit, for another ttl
Mutate_RefreshesOnHit(p, orgID, scope) ==
    LET key == getScopeCacheKey(orgID, scope)
        q == << orgID, scope >>
        call == [NoLoc EXCEPT !.op = "mutate", !.org = orgID, !.scope = scope,
                              !.seen = SeenOf(q),
                              !.stale = replaced[ScopePrefix(scope)]]
    IN  /\ ~crashed
        /\ Free(p)
        /\ orgID \in mutators
        /\ nCalls < MaxCalls
        /\ nCalls' = nCalls + 1
        /\ IF CacheHit(key)
           THEN /\ Returns(p, [call EXCEPT !.hit = TRUE, !.src = cache[key],
                                           !.result = cache[key].val])
                /\ cache' = [cache EXCEPT ![key].exp = now + ttl]
                /\ first' = [first EXCEPT ![q] =
                                IF tracking /\ @.st = "none"
                                THEN [st |-> "ok", th |-> 0, val |-> cache[key].val,
                                      exp |-> cache[key].exp]
                                ELSE @]
                /\ raced' = raced
           ELSE /\ pc' = [pc EXCEPT ![p] = "L75"]
                /\ loc' = [loc EXCEPT ![p] = call]
                /\ ret' = NoRet
                /\ cache' = cache
                /\ raced' = (raced \/ \E w \in Threads \ {p} : pc[w] = "L57")
                /\ first' = FirstStarts(p, q)
        /\ UNCHANGED << now, attributeResolvers, crashed, mutators,
                        replaced, nAdds, keyVars, actionVars >>

\* lines 65-72: the mutator of orgID is called with scope and looks the key up
\* in the cache; a hit returns the cached scopes, a miss goes on to line 74
Mutate(p, orgID, scope) ==
    LET key == getScopeCacheKey(orgID, scope)
        q == << orgID, scope >>
        call == [NoLoc EXCEPT !.op = "mutate", !.org = orgID, !.scope = scope,
                              !.seen = SeenOf(q),
                              !.stale = replaced[ScopePrefix(scope)]]
    IN  /\ ~crashed
        /\ Free(p)
        /\ orgID \in mutators
        /\ nCalls < MaxCalls
        /\ nCalls' = nCalls + 1
        /\ IF CacheHit(key)
           THEN /\ Returns(p, [call EXCEPT !.hit = TRUE, !.src = cache[key],
                                           !.result = cache[key].val])
                /\ first' = [first EXCEPT ![q] =
                                IF tracking /\ @.st = "none"
                                THEN [st |-> "ok", th |-> 0, val |-> cache[key].val,
                                      exp |-> cache[key].exp]
                                ELSE @]
                /\ raced' = raced
           ELSE /\ pc' = [pc EXCEPT ![p] = "L75"]
                /\ loc' = [loc EXCEPT ![p] = call]
                /\ ret' = NoRet
                /\ raced' = (raced \/ \E w \in Threads \ {p} : pc[w] = "L57")
                /\ first' = FirstStarts(p, q)
        /\ UNCHANGED << now, cache, attributeResolvers, crashed, mutators,
                        replaced, nAdds, keyVars, actionVars >>

\* a map read in a copy of the map taken before a resolver was replaced
Lookups_Replaced(p, prefix) ==
    IF replaced[prefix] # {} THEN replaced[prefix]
    ELSE IF MapWriters(p) = {} THEN { MapAt(prefix) }
    ELSE { MapAt(prefix), NoResolver }
             \cup { loc[w].resolver :
                       w \in { q \in MapWriters(p) : loc[q].prefix = prefix } }

\* what the map read of line 75 may yield for prefix: the entry, when no write
\* is under way; else also a miss, or the resolver a write to prefix brings
Lookups(p, prefix) ==
    IF MapWriters(p) = {} THEN { MapAt(prefix) }
    ELSE { MapAt(prefix), NoResolver }
             \cup { loc[w].resolver :
                       w \in { q \in MapWriters(p) : loc[q].prefix = prefix } }

\* resolver r when thread p reads it from a registration under way and not
\* from the map: to p it is then no longer a replaced resolver
InFlight(p, r) ==
    IF r = MapAt(ScopePrefix(loc[p].scope)) THEN {} ELSE {r}

\* a dispatch that caches the empty result of a scope no resolver is found for
Dispatch_CachesNotFound(p) ==
    /\ ~crashed
    /\ pc[p] = "L75"
    /\ \E r \in Lookups(p, ScopePrefix(loc[p].scope)) :
          IF r # NoResolver
          THEN /\ pc' = [pc EXCEPT ![p] = "L76"]
               /\ loc' = [loc EXCEPT ![p].resolver = r,
                                     ![p].args = << loc[p].org, loc[p].scope >>,
                                     ![p].stale = @ \ InFlight(p, r)]
               /\ ret' = NoRet
               /\ UNCHANGED << first, cache >>
          ELSE /\ Returns(p, [loc[p] EXCEPT !.err = "ErrResolverNotFound"])
               /\ cache' = CacheWith(getScopeCacheKey(loc[p].org, loc[p].scope),
                                     << >>, ttl, loc[p].org, loc[p].scope, NoResolver)
               /\ first' = FirstEnds(p, << loc[p].org, loc[p].scope >>,
                                     "notfound", << >>, 0)
    /\ UNCHANGED << raced, now, attributeResolvers, crashed, mutators, replaced,
                    nCalls, nAdds, keyVars, actionVars >>

\* a dispatch that takes a resolver from the map whatever prefix it is under
Dispatch_AnyPrefix(p) ==
    /\ ~crashed
    /\ pc[p] = "L75"
    /\ \/ \E x \in DOMAIN attributeResolvers \cup {ScopePrefix(loc[p].scope)} :
          \E r \in Lookups(p, x) :
             /\ IF r # NoResolver
                THEN /\ pc' = [pc EXCEPT ![p] = "L76"]
                     /\ loc' = [loc EXCEPT ![p].resolver = r,
                                            ![p].args = << loc[p].org, loc[p].scope >>,
                                            ![p].stale = @ \ InFlight(p, r)]
                     /\ ret' = NoRet
                     /\ first' = first
                ELSE /\ Returns(p, [loc[p] EXCEPT !.err = "ErrResolverNotFound"])
                     /\ first' = FirstEnds(p, << loc[p].org, loc[p].scope >>,
                                           "notfound", << >>, 0)
             /\ UNCHANGED crashed
       \/ /\ MapWriters(p) # {}
          /\ crashed' = TRUE
          /\ ret' = NoRet
          /\ UNCHANGED << pc, loc, first >>
    /\ UNCHANGED << raced, now, cache, attributeResolvers, mutators, replaced,
                    nCalls, nAdds, keyVars, actionVars >>

\* lines 74-76, 85: the unguarded map read.  A resolver found is invoked with
\* (orgID, scope); none found fails the call with ErrResolverNotFound.  With a
\* map write under way the runtime may throw "concurrent map read and map write".
Dispatch(p) ==
    /\ ~crashed
    /\ pc[p] = "L75"
    /\ \/ \E r \in Lookups(p, ScopePrefix(loc[p].scope)) :
             /\ IF r # NoResolver
                THEN /\ pc' = [pc EXCEPT ![p] = "L76"]
                     /\ loc' = [loc EXCEPT ![p].resolver = r,
                                           ![p].args = << loc[p].org, loc[p].scope >>,
                                           ![p].stale = @ \ InFlight(p, r)]
                     /\ ret' = NoRet
                     /\ first' = first
                ELSE /\ Returns(p, [loc[p] EXCEPT !.err = "ErrResolverNotFound"])
                     /\ first' = FirstEnds(p, << loc[p].org, loc[p].scope >>,
                                           "notfound", << >>, 0)
             /\ UNCHANGED crashed
       \/ /\ MapWriters(p) # {}
          /\ crashed' = TRUE
          /\ ret' = NoRet
          /\ UNCHANGED << pc, loc, first >>
    /\ UNCHANGED << raced, now, cache, attributeResolvers, mutators, replaced,
                    nCalls, nAdds, keyVars, actionVars >>

\* a return that forgets to cache the scopes
CacheResult_NoSet(p, scopes) ==
    cache' = cache

\* a return that leaves alone a live entry another call has stored meanwhile
CacheResult_KeepExisting(p, scopes) ==
    IF CacheHit(getScopeCacheKey(loc[p].org, loc[p].scope))
    THEN cache' = cache
    ELSE cache' = CacheWith(getScopeCacheKey(loc[p].org, loc[p].scope), scopes,
                            ttl, loc[p].org, loc[p].scope, loc[p].resolver)

\* a return that caches the scopes for cleanInterval instead of ttl
CacheResult_CleanInterval(p, scopes) ==
    cache' = CacheWith(getScopeCacheKey(loc[p].org, loc[p].scope), scopes,
                       cleanInterval, loc[p].org, loc[p].scope, loc[p].resolver)

\* lines 80-81: the scopes are cached under the key of the call for ttl
CacheResult(p, scopes) ==
    cache' = CacheWith(getScopeCacheKey(loc[p].org, loc[p].scope), scopes,
                       ttl, loc[p].org, loc[p].scope, loc[p].resolver)

\* a return that takes a resolver's empty result for no resolver found
ResolveReturns_EmptyIsNotFound(p) ==
    /\ ~crashed
    /\ pc[p] = "L76"
    /\ \E o \in ResolveOutcomes(loc[p].resolver, loc[p].args[1], loc[p].args[2]) :
          IF o.ok /\ o.scopes # << >>
          THEN /\ CacheResult(p, o.scopes)
               /\ Returns(p, [loc[p] EXCEPT !.scopes = o.scopes,
                                            !.result = o.scopes])
               /\ first' = FirstEnds(p, << loc[p].org, loc[p].scope >>,
                                     "ok", o.scopes, now + ttl)
          ELSE /\ Returns(p, [loc[p] EXCEPT !.err =
                        IF o.ok THEN "ErrResolverNotFound" ELSE "ResolveError"])
               /\ cache' = cache
               /\ first' = FirstEnds(p, << loc[p].org, loc[p].scope >>,
                                     "failed", << >>, 0)
    /\ UNCHANGED << raced, now, attributeResolvers, crashed, mutators,
                    replaced, nCalls, nAdds, keyVars, actionVars >>

\* a return that caches the empty result of a resolver that failed
ResolveReturns_CachesError(p) ==
    /\ ~crashed
    /\ pc[p] = "L76"
    /\ \E o \in ResolveOutcomes(loc[p].resolver, loc[p].args[1], loc[p].args[2]) :
          /\ CacheResult(p, o.scopes)
          /\ IF o.ok
             THEN /\ Returns(p, [loc[p] EXCEPT !.scopes = o.scopes,
                                               !.result = o.scopes])
                  /\ first' = FirstEnds(p, << loc[p].org, loc[p].scope >>,
                                        "ok", o.scopes, now + ttl)
             ELSE /\ Returns(p, [loc[p] EXCEPT !.err = "ResolveError"])
                  /\ first' = FirstEnds(p, << loc[p].org, loc[p].scope >>,
                                        "failed", << >>, 0)
    /\ UNCHANGED << raced, now, attributeResolvers, crashed, mutators,
                    replaced, nCalls, nAdds, keyVars, actionVars >>

\* lines 76-83: the resolver returns.  An error is wrapped and returned, and
\* nothing is cached; scopes are cached and returned.  Nothing shared is
\* touched between the return of Resolve and cache.Set, so the two are one step.
ResolveReturns(p) ==
    /\ ~crashed
    /\ pc[p] = "L76"
    /\ \E o \in ResolveOutcomes(loc[p].resolver, loc[p].args[1], loc[p].args[2]) :
          IF o.ok
          THEN /\ CacheResult(p, o.scopes)
               /\ Returns(p, [loc[p] EXCEPT !.scopes = o.scopes,
                                            !.result = o.scopes])
               /\ first' = FirstEnds(p, << loc[p].org, loc[p].scope >>,
                                     "ok", o.scopes, now + ttl)
          ELSE /\ Returns(p, [loc[p] EXCEPT !.err = "ResolveError"])
               /\ cache' = cache
               /\ first' = FirstEnds(p, << loc[p].org, loc[p].scope >>,
                                     "failed", << >>, 0)
    /\ UNCHANGED << raced, now, attributeResolvers, crashed, mutators,
                    replaced, nCalls, nAdds, keyVars, actionVars >>

---------------------------------------------------------------------------
(* The environment: time passes *)

Tick ==
    /\ ~crashed
    /\ now + TickStep <= MaxNow
    /\ now' = now + TickStep
    /\ ret' = NoRet
    /\ UNCHANGED << raced, cache, attributeResolvers, pc, loc, crashed, mutators,
                    first, replaced, nCalls, nAdds, keyVars, actionVars >>

Next ==
    \/ \E p \in Threads, x \in Prefixes, r \in Resolvers :
          AddScopeAttributeResolver(p, x, r)
    \/ \E p \in Threads : AddWrite(p)
    \/ \E o \in Orgs : GetScopeAttributeMutator(o)
    \/ \E p \in Threads, q \in Requests : Mutate(p, q[1], q[2])
    \/ \E p \in Threads : Dispatch(p)
    \/ \E p \in Threads : ResolveReturns(p)
    \/ Tick

Spec ==
    Init /\ [][Next]_vars

SpecHist ==
    InitHist /\ [][Next]_vars

---------------------------------------------------------------------------
(* SetActionResolver, lines 60-62, and GetActionSetResolver, lines 94-104 *)

\* ActionResolver.ResolveAction(action) of resolver r.  R1 builds a new slice
\* on every call, and counts folders:read among its own members; R2 hands out
\* the first cell of the array it keeps, whatever the action
ResolveAction(r, action) ==
    IF r = "R1"
    THEN IF action = "dashboards:read" THEN FreshSlice(<< "dashboards:view" >>)
         ELSE FreshSlice(<< "folders:view", "folders:read" >>)
    ELSE [arr |-> "m", len |-> 1, elems |-> << >>]

\* append(s, x): with spare capacity x is written into the array of s, behind
\* its last element; without, the elements move to a new array
append(s, x) ==
    IF s.len < Cap(s)
    THEN [slice |-> [s EXCEPT !.len = @ + 1],
          mem |-> [arrays EXCEPT ![s.arr][s.len + 1] = x]]
    ELSE [slice |-> FreshSlice(Append(ElemsIn(arrays, s), x)), mem |-> arrays]

\* line 60: the call is entered; the thread stands before the write of line 61
SetActionResolver(p, resolver) ==
    /\ ~crashed
    /\ Free(p)
    /\ nSets < MaxSets
    /\ nSets' = nSets + 1
    /\ pc' = [pc EXCEPT ![p] = "L61"]
    /\ loc' = [loc EXCEPT ![p] = [NoLoc EXCEPT !.op = "set", !.resolver = resolver]]
    /\ ret' = NoRet
    /\ UNCHANGED << now, cache, attributeResolvers, crashed, raced, mutators,
                    first, replaced, nCalls, nAdds, keyVars, actionResolver,
                    arrays, expanders, nExpands >>

\* line 61: the unguarded write of the reference
SetWrite(p) ==
    /\ ~crashed
    /\ pc[p] = "L61"
    /\ actionResolver' = loc[p].resolver
    /\ pc' = [pc EXCEPT ![p] = "idle"]
    /\ loc' = [loc EXCEPT ![p] = NoLoc]
    /\ ret' = NoRet
    /\ UNCHANGED << now, cache, attributeResolvers, crashed, raced, mutators,
                    first, replaced, nCalls, nAdds, keyVars, arrays, expanders,
                    nExpands, nSets >>

\* line 94: an ActionSetResolver closing over the registry is handed out
GetActionSetResolver ==
    /\ ~crashed
    /\ ~expanders
    /\ expanders' = TRUE
    /\ ret' = NoRet
    /\ UNCHANGED << now, cache, attributeResolvers, pc, loc, crashed, raced,
                    mutators, first, replaced, nCalls, nAdds, keyVars,
                    actionResolver, arrays, nExpands, nSets >>

\* the threads other than p that stand before the write of line 61
RefWriters(p) ==
    { q \in Threads \ {p} : pc[q] = "L61" }

\* what a read of s.actionResolver may yield: the reference, and with a write
\* under way also the one being written
RefReads(p) ==
    { actionResolver } \cup { loc[w].resolver : w \in RefWriters(p) }

\* thread p returns from its expansion with the locals l
ExpandReturns(p, l) ==
    /\ pc' = [pc EXCEPT ![p] = "idle"]
    /\ loc' = [loc EXCEPT ![p] = NoLoc]
    /\ ret' = [l EXCEPT !.op = "expanded"]

\* an expansion that returns nothing when no resolver is installed
Expand_NilReturnsNone(p, action) ==
    LET call == [NoLoc EXCEPT !.op = "expand", !.action = action]
    IN  /\ ~crashed
        /\ Free(p)
        /\ expanders
        /\ nExpands < MaxExpands
        /\ nExpands' = nExpands + 1
        /\ \E r \in RefReads(p) :
              IF r = NoResolver
              THEN ExpandReturns(p, call)
              ELSE /\ pc' = [pc EXCEPT ![p] = "L99"]
                   /\ loc' = [loc EXCEPT ![p] = call]
                   /\ ret' = NoRet
        /\ UNCHANGED << now, cache, attributeResolvers, crashed, raced, mutators,
                        first, replaced, nCalls, nAdds, keyVars, actionResolver,
                        arrays, expanders, nSets >>

\* an expansion that notes the action it was called with in the cache
Expand_CachesAction(p, action) ==
    LET call == [NoLoc EXCEPT !.op = "expand", !.action = action]
    IN  /\ ~crashed
        /\ Free(p)
        /\ expanders
        /\ nExpands < MaxExpands
        /\ nExpands' = nExpands + 1
        /\ cache' = CacheWith(<< action >>, << action >>, ttl, 0, << >>, NoResolver)
        /\ \E r \in RefReads(p) :
              IF r = NoResolver
              THEN ExpandReturns(p, [call EXCEPT !.result = << action >>])
              ELSE /\ pc' = [pc EXCEPT ![p] = "L99"]
                   /\ loc' = [loc EXCEPT ![p] = call]
                   /\ ret' = NoRet
        /\ UNCHANGED << now, attributeResolvers, crashed, raced, mutators,
                        first, replaced, nCalls, nAdds, keyVars, actionResolver,
                        arrays, expanders, nSets >>

\* lines 95-98: the ActionSetResolver is called with action and reads the
\* reference; with none installed it returns the action alone
Expand(p, action) ==
    LET call == [NoLoc EXCEPT !.op = "expand", !.action = action]
    IN  /\ ~crashed
        /\ Free(p)
        /\ expanders
        /\ nExpands < MaxExpands
        /\ nExpands' = nExpands + 1
        /\ \E r \in RefReads(p) :
              IF r = NoResolver
              THEN ExpandReturns(p, [call EXCEPT !.result = << action >>])
              ELSE /\ pc' = [pc EXCEPT ![p] = "L99"]
                   /\ loc' = [loc EXCEPT ![p] = call]
                   /\ ret' = NoRet
        /\ UNCHANGED << now, cache, attributeResolvers, crashed, raced, mutators,
                        first, replaced, nCalls, nAdds, keyVars, actionResolver,
                        arrays, expanders, nSets >>

\* line 99: the reference is read again and ResolveAction called on it.  A nil
\* reference panics; a read that overlaps a write may also be torn, and the
\* call on it crash.
CallResolveAction(p) ==
    /\ ~crashed
    /\ pc[p] = "L99"
    /\ \/ \E r \in RefReads(p) :
             IF r = NoResolver
             THEN /\ crashed' = TRUE
                  /\ ret' = NoRet
                  /\ UNCHANGED << pc, loc >>
             ELSE /\ pc' = [pc EXCEPT ![p] = "L100"]
                  /\ loc' = [loc EXCEPT
                        ![p].resolver = r,
                        ![p].actionSetActions = ResolveAction(r, loc[p].action),
                        ![p].resolved =
                            ElemsIn(arrays, ResolveAction(r, loc[p].action))]
                  /\ ret' = NoRet
                  /\ UNCHANGED crashed
       \/ /\ RefWriters(p) # {}
          /\ crashed' = TRUE
          /\ ret' = NoRet
          /\ UNCHANGED << pc, loc >>
    /\ UNCHANGED << now, cache, attributeResolvers, raced, mutators, first,
                    replaced, nCalls, nAdds, keyVars, actionVars >>

\* what the append of thread p may leave in the cell it writes: the action, or
\* a torn string when another thread writes that cell of that array too
AppendWrites(p) ==
    { loc[p].action }
        \cup { "torn" : q \in { w \in Threads \ {p} :
                                  /\ pc[w] = "L100"
                                  /\ loc[p].actionSetActions.arr # Private
                                  /\ loc[w].actionSetActions = loc[p].actionSetActions
                                  /\ loc[w].action # loc[p].action } }

\* line 100: actions := append(actionSetActions, action)
AppendAction(p) ==
    /\ ~crashed
    /\ pc[p] = "L100"
    /\ \E x \in AppendWrites(p) :
          /\ arrays' = append(loc[p].actionSetActions, x).mem
          /\ loc' = [loc EXCEPT ![p].actions =
                        append(loc[p].actionSetActions, x).slice]
    /\ pc' = [pc EXCEPT ![p] = "L101"]
    /\ ret' = NoRet
    /\ UNCHANGED << now, cache, attributeResolvers, crashed, raced, mutators,
                    first, replaced, nCalls, nAdds, keyVars, actionResolver,
                    expanders, nExpands, nSets >>

\* lines 101-102: actions is logged and returned: what it holds by then
ExpandDone(p) ==
    /\ ~crashed
    /\ pc[p] = "L101"
    /\ ExpandReturns(p, [loc[p] EXCEPT !.result = ElemsIn(arrays, loc[p].actions)])
    /\ UNCHANGED << now, cache, attributeResolvers, crashed, raced, mutators,
                    first, replaced, nCalls, nAdds, keyVars, actionVars >>

NextAction ==
    \/ \E p \in Threads, r \in ActionResolvers \cup { NoResolver } :
          SetActionResolver(p, r)
    \/ \E p \in Threads : SetWrite(p)
    \/ GetActionSetResolver
    \/ \E p \in Threads, a \in Actions : Expand(p, a)
    \/ \E p \in Threads : CallResolveAction(p)
    \/ \E p \in Threads : AppendAction(p)
    \/ \E p \in Threads : ExpandDone(p)

SpecAction ==
    Init /\ [][NextAction]_vars

\* what the scope side may have left by the time actions are expanded: nothing,
\* or resolvers under their prefixes and the entries of calls resolved by them
RegistryStates ==
    { [map |-> << >>, cache |-> << >>, mutators |-> {}, nAdds |-> 0, nCalls |-> 0],
      [map |-> [x \in { ScopePrefix(ScopeD) } |-> "A"],
       cache |-> [k \in { getScopeCacheKey(1, ScopeD) } |->
                    [val |-> << "dashboards:uid:abc", "folders:uid:xyz" >>,
                     exp |-> ttl, at |-> 0, org |-> 1, scope |-> ScopeD,
                     by |-> "A"]],
       mutators |-> {1}, nAdds |-> 1, nCalls |-> 1],
      [map |-> [x \in { ScopePrefix(ScopeD), << "e", ":" >> } |->
                  IF x = ScopePrefix(ScopeD) THEN "B" ELSE "A"],
       cache |-> [k \in { getScopeCacheKey(-1, ScopeD) } |->
                    [val |-> << >>, exp |-> ttl, at |-> 0, org |-> -1,
                     scope |-> ScopeD, by |-> "B"]],
       mutators |-> {-1}, nAdds |-> 2, nCalls |-> 1] }

\* actions are expanded on a registry the scope side has been at work on
InitFrame ==
    /\ \E s \in RegistryStates :
          /\ attributeResolvers = s.map
          /\ cache = s.cache
          /\ mutators = s.mutators
          /\ nAdds = s.nAdds
          /\ nCalls = s.nCalls
    /\ now = 0
    /\ pc = [p \in Threads |-> "idle"]
    /\ loc = [p \in Threads |-> NoLoc]
    /\ ret = NoRet
    /\ crashed = FALSE
    /\ raced = FALSE
    /\ first = [q \in Requests |-> NoFirst]
    /\ replaced = [x \in Prefixes |-> {}]
    /\ actionResolver = NoResolver
    /\ arrays = ResolverArrays
    /\ expanders = FALSE
    /\ nExpands = 0
    /\ nSets = 0
    /\ tracking = FALSE
    /\ keyIn = << >>
    /\ keyOut = << >>

SpecFrame ==
    InitFrame /\ [][NextAction]_vars

\* the registry put to one of its two uses, scopes or actions, with the first
\* call of every request recorded
NextBind ==
    \/ nSets = 0 /\ ~expanders /\ Next
    \/ nAdds = 0 /\ mutators = {} /\ NextAction

SpecBind ==
    InitHist /\ [][NextBind]_vars

---------------------------------------------------------------------------
(* getScopeCacheKey on its own: two inputs are drawn, their keys computed *)

MaxKeyOrg == 11
MaxScopeLen == 2

KeyOrgs == (0 - MaxKeyOrg) .. MaxKeyOrg
KeyAlphabet == { "a", "-", "1" }
KeyScopes == UNION { [1 .. n -> KeyAlphabet] : n \in 0 .. MaxScopeLen }
KeyInputs == KeyOrgs \X KeyScopes

InitKey ==
    /\ NewResolvers
    /\ tracking = FALSE
    /\ keyIn \in KeyInputs \X KeyInputs
    /\ keyOut = << >>

ComputeKeys ==
    /\ keyOut = << >>
    /\ keyOut' = << getScopeCacheKey(keyIn[1][1], keyIn[1][2]),
                    getScopeCacheKey(keyIn[2][1], keyIn[2][2]) >>
    /\ UNCHANGED << raced, now, cache, attributeResolvers, pc, loc, ret, crashed,
                    mutators, tracking, first, replaced, nCalls, nAdds, keyIn,
                    actionVars >>

NextKey ==
    ComputeKeys

SpecKey ==
    InitKey /\ [][NextKey]_vars

---------------------------------------------------------------------------
(* Claims.  ret describes the call that returned in the step just taken:   *)
(* its arguments, what it read and found, and what it returned.            *)

RetKey == getScopeCacheKey(ret.org, ret.scope)

\* the resolver whose result a returned call handed back
RetProducer == IF ret.hit THEN ret.src.by ELSE ret.resolver

\* C1 as stated: the first call with (o, s) returns what the resolver returned,
\* and a later call with (o, s) that starts after it completed and before the
\* TTL has elapsed returns that same sequence, invokes no resolver and writes
\* nothing to the cache.  (Stated of the runs in which no two conflicting map
\* accesses have overlapped, so that it stands apart from C8.)
C1_LaterCallReturnsFirstResult ==
    [][(ret'.op = "mutated" /\ ~raced') =>
          /\ (~ret'.hit /\ ret'.err = "nil") => ret'.result = ret'.scopes
          /\ ret'.seen.st = "ok" =>
                /\ ret'.hit
                /\ ret'.resolver = NoResolver
                /\ cache' = cache
                /\ ret'.result = ret'.seen.val]_vars

\* C1, amended: a call that misses the cache and whose resolver succeeds returns
\* exactly the resolver's sequence and stores it under the key; a later call
\* with (o, s) that starts after the first one completed and before the TTL has
\* elapsed invokes no resolver, writes nothing, and returns the sequence then
\* stored under the key of (o, s).
C1_LaterCallReturnsCachedResult ==
    [][ret'.op = "mutated" =>
          /\ (~ret'.hit /\ ret'.err = "nil") =>
                /\ ret'.resolver # NoResolver
                /\ ret'.result = ret'.scopes
                /\ RetKey' \in DOMAIN cache'
                /\ cache'[RetKey'].val = ret'.scopes
          /\ ret'.seen.st = "ok" =>
                /\ ret'.hit
                /\ ret'.resolver = NoResolver
                /\ cache' = cache
                /\ RetKey' \in DOMAIN cache
                /\ ret'.result = cache[RetKey'].val]_vars

\* a call that started after the first call with its request had completed,
\* within the TTL, was served from the cache
C1_Witness ==
    ret.op = "mutated" /\ ret.seen.st = "ok" /\ ret.hit

\* C2: a call that missed the cache and finds no resolver registered, nor being
\* registered, for the prefix of its scope fails with ErrResolverNotFound,
\* invokes no resolver and leaves the cache unchanged.
C2_NoResolverFails ==
    [][\A p \in Threads :
          ( /\ pc[p] = "L75"
            /\ pc'[p] # "L75"
            /\ MapAt(ScopePrefix(loc[p].scope)) = NoResolver
            /\ \A w \in MapWriters(p) : loc[w].prefix # ScopePrefix(loc[p].scope) )
          => /\ ret'.op = "mutated"
             /\ ret'.err = "ErrResolverNotFound"
             /\ ret'.result = << >>
             /\ ret'.resolver = NoResolver
             /\ pc'[p] = "idle"
             /\ cache' = cache]_vars

\* a call failed with ErrResolverNotFound while another prefix had a resolver
C2_Witness ==
    /\ ret.op = "mutated"
    /\ ret.err = "ErrResolverNotFound"
    /\ MapAt(ScopePrefix(ret.scope)) = NoResolver
    /\ DOMAIN attributeResolvers # {}

\* C3: a call whose resolver fails returns an error and no scopes and leaves the
\* cache as it was; every entry of the cache is a sequence its resolver
\* produced, never the product of a failure, so a call that follows a failed
\* one and is served from the cache is served a resolver's result.
C3_ResolverErrorNotCached ==
    [][/\ \A p \in Threads :
             (pc[p] = "L76" /\ pc'[p] = "idle")
             => /\ ret'.op = "mutated"
                /\ ret'.err \in { "nil", "ResolveError" }
                /\ ret'.err = "ResolveError"
                      => (ret'.result = << >> /\ cache' = cache)
       /\ \A k \in DOMAIN cache' :
             cache'[k].by \in Resolvers /\ cache'[k].val \in Produces(cache'[k].by)
       /\ (ret'.op = "mutated" /\ ret'.seen.st = "failed")
             => (ret'.hit => ret'.src.by \in Resolvers)]_vars

\* the first call with a request failed in its resolver, and a call that
\* started after it has invoked the resolver again
C3_Witness ==
    \E p \in Threads, q \in Requests :
        /\ pc[p] = "L76"
        /\ loc[p].seen.st = "failed"
        /\ << loc[p].org, loc[p].scope >> = q
        /\ first[q].st = "failed"
        /\ q[1] \in mutators
        /\ MapAt(ScopePrefix(q[2])) # NoResolver

\* C4: no call for (o2, s) is ever served the entry cached for (o1, s) with
\* o1 # o2: the keys of one scope under two organizations differ, so resolving
\* s for o1 and then for o2 invokes the resolver both times.
C4_NoCrossOrgHit ==
    /\ \A q1, q2 \in Requests :
          (q1[2] = q2[2] /\ q1[1] # q2[1])
          => getScopeCacheKey(q1[1], q1[2]) # getScopeCacheKey(q2[1], q2[2])
    /\ (ret.op = "mutated" /\ ret.hit /\ ret.src.scope = ret.scope)
          => ret.src.org = ret.org

\* with the result for (o1, s) cached and live, a call for (o2, s) has invoked
\* the resolver
C4_Witness ==
    \E p \in Threads, k \in DOMAIN cache :
        /\ pc[p] = "L76"
        /\ cache[k].scope = loc[p].scope
        /\ cache[k].org # loc[p].org
        /\ ~(now > cache[k].exp)

\* C5: no call returns a cached result written more than ttl before the call;
\* a call made once the TTL has elapsed since the entry was written misses.
C5_ExpiredNeverServed ==
    (ret.op = "mutated" /\ ret.hit) => now - ret.src.at <= ttl

\* with the entry of its request expired, a call has invoked the resolver again
C5_Witness ==
    \E p \in Threads :
        LET key == getScopeCacheKey(loc[p].org, loc[p].scope)
        IN  /\ pc[p] = "L76"
            /\ key \in DOMAIN cache
            /\ cache[key].org = loc[p].org
            /\ cache[key].scope = loc[p].scope
            /\ now - cache[key].at > ttl

\* C6: getScopeCacheKey(o1, s1) = getScopeCacheKey(o2, s2) only if o1 = o2 and
\* s1 = s2, for all organization ids (negative ones included) and all scopes.
C6_KeysCollisionFree ==
    (keyOut # << >> /\ keyOut[1] = keyOut[2]) => keyIn[1] = keyIn[2]

\* C7 as stated: once a registration for a prefix has been replaced by another,
\* no later call for a scope of that prefix returns a result of the replaced
\* resolver.  (Stated of the runs in which no two conflicting map accesses have
\* overlapped, so that it stands apart from C8.)
C7_OnlyLatestObserved ==
    (ret.op = "mutated" /\ ret.err = "nil" /\ ~raced)
        => RetProducer \notin ret.stale

\* C7, amended: the map changes only by a registration writing its resolver
\* under its prefix, and once a registration has replaced another, no later
\* call that misses the cache invokes the replaced resolver (a call served from
\* the cache may still return the replaced resolver's result).
C7_MissUsesLatest ==
    [][/\ attributeResolvers' # attributeResolvers
             => \E p \in Threads :
                    /\ pc[p] = "L57"
                    /\ pc'[p] = "idle"
                    /\ loc[p].prefix \in DOMAIN attributeResolvers'
                    /\ attributeResolvers'[loc[p].prefix] = loc[p].resolver
                    /\ \A x \in DOMAIN attributeResolvers \ { loc[p].prefix } :
                           /\ x \in DOMAIN attributeResolvers'
                           /\ attributeResolvers'[x] = attributeResolvers[x]
       /\ \A p \in Threads :
             pc'[p] = "L76" => loc'[p].resolver \notin loc'[p].stale
       /\ (ret'.op = "mutated" /\ ~ret'.hit /\ ret'.err = "nil")
             => ret'.resolver \notin ret'.stale]_vars

\* a call that started after its prefix's resolver had been replaced missed the
\* cache and returned the result of the resolver registered last
C7_Witness ==
    /\ ret.op = "mutated"
    /\ ~ret.hit
    /\ ret.err = "nil"
    /\ ret.stale # {}
    /\ ret.resolver = MapAt(ScopePrefix(ret.scope))

\* C8: a write of the prefix map never overlaps another read or write of it:
\* no thread stands at the map write of line 57 while another stands at that
\* write or at the map read of line 75.
C8_NoDataRace ==
    \A p, q \in Threads :
        (p # q /\ pc[p] = "L57") => pc[q] \notin { "L57", "L75" }

\* C9: an expansion called while no action resolver is installed, and none is
\* being installed, returns exactly the one-element sequence of its action; it
\* has no error to return and does not crash.
C9_NoResolverReturnsAction ==
    [][( /\ nExpands' = nExpands + 1
         /\ actionResolver = NoResolver
         /\ \A q \in Threads : pc[q] # "L61" )
       => /\ ret'.op = "expanded"
          /\ ret'.action \in Actions
          /\ ret'.result = << ret'.action >>
          /\ ret'.err = "nil"
          /\ ret'.resolver = NoResolver
          /\ \A q \in Threads : pc'[q] = pc[q]
          /\ ~crashed']_vars

\* with no resolver installed and no SetActionResolver call under way, an
\* expansion has returned its action alone
C9_Witness ==
    /\ ret.op = "expanded"
    /\ ret.resolver = NoResolver
    /\ ret.result = << ret.action >>
    /\ actionResolver = NoResolver
    /\ \A q \in Threads : pc[q] # "L61"

\* C10: an expansion of a that called ResolveAction returns what ResolveAction
\* returned followed by a, duplicates kept.  (Stated of the results in which
\* no torn write shows.)
C10_ResolvedThenAction ==
    ( /\ ret.op = "expanded"
      /\ ret.resolver # NoResolver
      /\ \A i \in 1 .. Len(ret.result) : ret.result[i] # "torn" )
    => ret.result = ret.resolved \o << ret.action >>

\* C11: nothing holds back a second miss for a request.  A call that misses
\* goes on to the map and the resolver whatever other calls are under way, and
\* every miss whose resolver succeeds writes its own result over the entry of
\* its key, so that the entry that remains is that of the later write.
C11_NoSingleFlight ==
    [][/\ \A p \in Threads :
             (pc[p] = "idle" /\ pc'[p] # "idle" /\ loc'[p].op = "mutate")
             => pc'[p] = "L75"
       /\ (ret'.op = "mutated" /\ ~ret'.hit /\ ret'.err = "nil")
             => /\ RetKey' \in DOMAIN cache'
                /\ cache'[RetKey'].val = ret'.result
                /\ cache'[RetKey'].at = now
                /\ cache'[RetKey'].exp = now + ttl]_vars

\* two calls for one request were under way together, both missed and both
\* invoked the resolver; the first one stored its result, and the other has
\* now stored a different one over it
C11_Witness ==
    /\ ret.op = "mutated"
    /\ ~ret.hit
    /\ ret.err = "nil"
    /\ ret.seen.st = "none"
    /\ first[<< ret.org, ret.scope >>].st = "ok"
    /\ ~(now > first[<< ret.org, ret.scope >>].exp)
    /\ first[<< ret.org, ret.scope >>].val # ret.result
    /\ cache[RetKey].val = ret.result
    /\ cache[RetKey].org = ret.org
    /\ cache[RetKey].scope = ret.scope

\* C12: every entry expires exactly ttl after it was written.  A hit invokes no
\* resolver and leaves the cache as it was, entries change only by a miss
\* storing its result, and a call made when more than ttl has passed since the
\* entry under its key was written is not served from the cache, however many
\* hits the entry has had.
C12_FixedExpiry ==
    [][/\ \A k \in DOMAIN cache' : cache'[k].exp = cache'[k].at + ttl
       /\ (ret'.op = "mutated" /\ ret'.hit)
             => /\ cache' = cache
                /\ ret'.resolver = NoResolver
                /\ ret'.src = cache[RetKey']
                /\ ~(now > ret'.src.at + ttl)
       /\ \A k \in DOMAIN cache' :
             (k \notin DOMAIN cache \/ cache'[k] # cache[k])
             => /\ ret'.op = "mutated"
                /\ ~ret'.hit
                /\ ret'.err = "nil"
                /\ RetKey' = k
                /\ cache'[k].at = now
       /\ \A p \in Threads :
             ( /\ pc[p] = "idle"
               /\ pc'[p] = "L75"
               /\ getScopeCacheKey(loc'[p].org, loc'[p].scope) \in DOMAIN cache )
             => now > cache[getScopeCacheKey(loc'[p].org, loc'[p].scope)].at + ttl]_vars

\* an entry written at one time was served at the last instant of its ttl,
\* its expiry where its creation put it
C12_Witness ==
    /\ ret.op = "mutated"
    /\ ret.hit
    /\ ret.src.at + ttl = now
    /\ ret.src.exp = now
    /\ ret.src.org = ret.org
    /\ ret.src.scope = ret.scope

\* C13: an empty sequence is a result like any other.  ErrResolverNotFound is
\* returned only by a call that found no resolver, a call whose resolver
\* returned without error has stored what it returns, the empty sequence
\* included, and a call served an entry that holds the empty sequence returns
\* it without error, invoking no resolver and writing nothing.
C13_EmptyResultCached ==
    [][ret'.op = "mutated" =>
          /\ ret'.err = "ErrResolverNotFound" => ret'.resolver = NoResolver
          /\ (~ret'.hit /\ ret'.resolver # NoResolver /\ ret'.err = "nil")
                => /\ ret'.result = ret'.scopes
                   /\ ret'.scopes \in Produces(ret'.resolver)
                   /\ RetKey' \in DOMAIN cache'
                   /\ cache'[RetKey'].val = ret'.scopes
                   /\ cache'[RetKey'].exp = now + ttl
          /\ (ret'.hit /\ ret'.src.val = << >>)
                => /\ ret'.result = << >>
                   /\ ret'.err = "nil"
                   /\ ret'.resolver = NoResolver
                   /\ cache' = cache]_vars

\* a resolver returned the empty sequence for a request, and a later call with
\* that request has been served it from the cache
C13_Witness ==
    /\ ret.op = "mutated"
    /\ ret.hit
    /\ ret.err = "nil"
    /\ ret.result = << >>
    /\ ret.src.val = << >>
    /\ ret.src.by \in Resolvers
    /\ ret.src.org = ret.org
    /\ ret.src.scope = ret.scope

\* C14: a miss invokes the resolver of the scope's own prefix, once, with the
\* mutator's organization and the scope as given.  The resolver a call goes on
\* to invoke is the one the map holds under ScopePrefix(scope), or the one a
\* registration under way brings for that very prefix; the arguments are the
\* organization of a mutator handed out and the scope of the call; after the
\* invocation the call only returns; and a miss that returns without
\* ErrResolverNotFound has invoked that one resolver.
C14_DispatchByPrefix ==
    [][/\ \A p \in Threads :
             /\ (pc[p] = "L75" /\ pc'[p] = "L76")
                   => /\ loc'[p].resolver # NoResolver
                      /\ \/ loc'[p].resolver = MapAt(ScopePrefix(loc[p].scope))
                         \/ \E w \in Threads \ {p} :
                               /\ pc[w] = "L57"
                               /\ loc[w].prefix = ScopePrefix(loc[p].scope)
                               /\ loc[w].resolver = loc'[p].resolver
                      /\ loc'[p].args = << loc[p].org, loc[p].scope >>
                      /\ loc'[p].org = loc[p].org
                      /\ loc'[p].scope = loc[p].scope
                      /\ loc[p].org \in mutators
             /\ pc'[p] = "L76" => pc[p] \in { "L75", "L76" }
             /\ (pc[p] = "L76" /\ pc'[p] # "L76")
                   => /\ pc'[p] = "idle"
                      /\ ret'.op = "mutated"
                      /\ ret'.resolver = loc[p].resolver
                      /\ ret'.args = loc[p].args
       /\ (ret'.op = "mutated" /\ ~ret'.hit)
             => IF ret'.err = "ErrResolverNotFound"
                THEN ret'.resolver = NoResolver /\ ret'.args = << >>
                ELSE /\ ret'.resolver # NoResolver
                     /\ ret'.args = << ret'.org, ret'.scope >>]_vars

\* a miss has returned what the resolver of its prefix produced, while the map
\* holds a different resolver under another prefix
C14_Witness ==
    /\ ret.op = "mutated"
    /\ ~ret.hit
    /\ ret.err = "nil"
    /\ ret.args = << ret.org, ret.scope >>
    /\ ret.resolver = MapAt(ScopePrefix(ret.scope))
    /\ \E x \in DOMAIN attributeResolvers :
          /\ x # ScopePrefix(ret.scope)
          /\ attributeResolvers[x] # ret.resolver

\* C15: action expansion is no business of the cache or the registry.  A step
\* of an expansion call leaves the cache, the prefix map and the action
\* resolver reference as they are; a call made while a resolver is installed
\* and no installation is under way goes on to line 99; and a call at line 99
\* that goes on has called ResolveAction for its action, so no expansion is
\* answered from an earlier one.
C15_ExpansionFrame ==
    [][/\ ( \/ ret'.op = "expanded"
            \/ \E p \in Threads :
                  /\ pc'[p] # pc[p]
                  /\ (loc[p].op = "expand" \/ loc'[p].op = "expand") )
          => /\ cache' = cache
             /\ attributeResolvers' = attributeResolvers
             /\ actionResolver' = actionResolver
       /\ ( /\ nExpands' # nExpands
            /\ actionResolver # NoResolver
            /\ \A w \in Threads : pc[w] # "L61" )
          => /\ ret'.op # "expanded"
             /\ \E p \in Threads : pc[p] = "idle" /\ pc'[p] = "L99"
       /\ \A p \in Threads :
             /\ pc'[p] = "L100" => pc[p] \in { "L99", "L100" }
             /\ (pc[p] = "L99" /\ pc'[p] # "L99")
                   => /\ pc'[p] = "L100"
                      /\ loc'[p].resolver \in ActionResolvers
                      /\ loc'[p].actionSetActions =
                            ResolveAction(loc'[p].resolver, loc[p].action)
       /\ (ret'.op = "expanded" /\ ret'.result # << ret'.action >>)
             => /\ ret'.resolver \in ActionResolvers
                /\ ret'.actionSetActions = ResolveAction(ret'.resolver, ret'.action)]_vars

\* with entries in the cache, an expansion of an action under resolver R2 has
\* left that action behind in R2's array and returned, and another expansion of
\* the same action has called ResolveAction on R2 again
C15_Witness ==
    /\ cache # << >>
    /\ attributeResolvers # << >>
    /\ \E p \in Threads :
          /\ pc[p] = "L100"
          /\ loc[p].resolver = "R2"
          /\ loc[p].action \in Actions
          /\ loc[p].action = arrays["m"][2]
          /\ \A q \in Threads \ {p} : pc[q] = "idle"

\* C16: the entry found under the key of a request (org, scope) was stored by
\* a resolution of that request: it records that organization and that scope,
\* a resolver as its producer, and a sequence that resolver returns; no entry
\* comes from a call that failed, found no resolver or was served from the cache.
C16_EntriesFromOwnResolution ==
    \A q \in Requests :
        getScopeCacheKey(q[1], q[2]) \in DOMAIN cache
        => LET e == cache[getScopeCacheKey(q[1], q[2])]
           IN  /\ e.by \in Resolvers
               /\ e.val \in Produces(e.by)
               /\ e.org = q[1]
               /\ e.scope = q[2]

\* C17: expansions do not reach into each other.  The elements the resolver's
\* sequence holds stay as they were, and whatever the interleaving, a result
\* returned by an expansion of a under an installed resolver is made of what
\* ResolveAction returned to that call and of a itself, never of the action of
\* another call.  (Stated of the results in which no torn write shows.)
C17_ExpansionsIndependent ==
    /\ \A m \in DOMAIN ResolverArrays :
          arrays[m][1] = ResolverArrays[m][1]
    /\ ( /\ ret.op = "expanded"
         /\ ret.resolver # NoResolver
         /\ \A i \in 1 .. Len(ret.result) : ret.result[i] # "torn" )
       => \A i \in 1 .. Len(ret.result) :
             \/ ret.result[i] = ret.action
             \/ \E j \in 1 .. Len(ret.resolved) : ret.result[i] = ret.resolved[j]

\* C18: the functions handed out look at the registry when they are called.
\* A mutator or an expander, once handed out, stays the one in use; a call of
\* a mutator that reaches the map while no registration is under way invokes
\* the resolver the map holds for its prefix at that moment, and fails with
\* ErrResolverNotFound only if the map holds none; an expansion that reaches
\* line 99 while no installation is under way calls the resolver the
\* reference holds at that moment, and one that starts then returns its action
\* alone only if the reference holds none.
C18_BoundToRegistry ==
    [][/\ mutators \subseteq mutators'
       /\ expanders => expanders'
       /\ \A p \in Threads :
             /\ ( /\ pc[p] = "L75" /\ pc'[p] # "L75"
                  /\ \A w \in Threads : pc[w] # "L57" )
                => IF MapAt(ScopePrefix(loc[p].scope)) = NoResolver
                   THEN /\ ret'.op = "mutated" /\ ret'.err = "ErrResolverNotFound"
                        /\ ret'.org = loc[p].org /\ ret'.scope = loc[p].scope
                   ELSE /\ pc'[p] = "L76"
                        /\ loc'[p].resolver = MapAt(ScopePrefix(loc[p].scope))
             /\ ( /\ pc[p] = "L99" /\ pc'[p] # "L99"
                  /\ \A w \in Threads : pc[w] # "L61" )
                => /\ actionResolver # NoResolver
                   /\ pc'[p] = "L100"
                   /\ loc'[p].resolver = actionResolver
       /\ ( /\ nExpands' # nExpands
            /\ \A w \in Threads : pc[w] # "L61" )
          => (ret'.op = "expanded" <=> actionResolver = NoResolver)]_vars

\* the first call with a request failed with ErrResolverNotFound; a resolver
\* has been registered for its prefix since, and a call with the same request,
\* through the only mutator its organization has, has now returned what that
\* resolver produced
C18_Witness ==
    /\ ret.op = "mutated"
    /\ ~ret.hit
    /\ ret.err = "nil"
    /\ first[<< ret.org, ret.scope >>].st = "notfound"
    /\ ret.resolver \in Resolvers
    /\ ret.resolver = MapAt(ScopePrefix(ret.scope))
    /\ ret.result \in Produces(ret.resolver)

====
